---- MODULE Spec2Model ----
(***************************************************************************)
(* A model of the serverless-rust plugin (src/index.js): the RustPlugin    *)
(* constructor, the container argument assembler dockerBuildArgs, the      *)
(* executor dockerBuild and the build() entry point bound to the           *)
(* lifecycle hooks.                                                        *)
(*                                                                         *)
(* JavaScript values are modelled as follows.  A string is a TLA+ string;  *)
(* undefined and null are the strings "undefined" and "null" (what         *)
(* String() makes of them), which no input of the model uses as a real     *)
(* string.  An optional number (the exit status of spawnSync, null when    *)
(* the child was killed by a signal) is a set: {} for null, {n} for n.     *)
(* An object is a function from its keys; a missing key reads undefined.   *)
(* The text of a log line or of an error message is the sequence of its    *)
(* literal and interpolated pieces.                                        *)
(***************************************************************************)
EXTENDS Integers, Sequences, FiniteSets, TLC

VARIABLES
    provider,     \* serverless.service.provider: [name, runtime]
    funcs,        \* serverless.service.functions: name -> [runtime, artifact]
    options,      \* the plugin's options: [function]
    custom,       \* this.custom, the merged configuration
    srcPath,      \* this.srcPath
    env,          \* process.env
    globalScope,  \* the global bindings the free identifiers of build() see
    last,         \* what the most recent build() call did
    assembled     \* the most recent direct dockerBuildArgs() call

vars == <<provider, funcs, options, custom, srcPath, env, globalScope, last,
          assembled>>

-----------------------------------------------------------------------------
(* Bounds of the model *)

\* at most this many declared functions
MaxUnits == 2

\* exit statuses 0..MaxStatus
MaxStatus == 1

-----------------------------------------------------------------------------
(* Constants of the program *)

DEFAULT_DOCKER_TAG == "latest"
DEFAULT_DOCKER_IMAGE == "softprops/lambda-rust"
RUST_RUNTIME == "rust"
BASE_RUNTIME == "provided.al2"

-----------------------------------------------------------------------------
(* JavaScript values *)

Undefined == "undefined"
Null == "null"

\* the truthiness of a string-or-undefined value
Truthy(v) == v \notin {Undefined, Null, ""}

\* v != undefined (loose inequality: null equals undefined)
LooseDefined(v) == v \notin {Undefined, Null}

\* obj[key], undefined when the key is missing
Get(obj, key) == IF key \in DOMAIN obj THEN obj[key] ELSE Undefined

EmptyObject == [k \in {} |-> Undefined]

\* Object.assign(target, source)
ObjectAssign(target, source) ==
    [k \in DOMAIN target \cup DOMAIN source |->
        IF k \in DOMAIN source THEN source[k] ELSE target[k]]

Digits == <<"0", "1", "2", "3", "4", "5", "6", "7", "8", "9">>

\* String(n) of a natural number
RECURSIVE NatToString(_)
NatToString(n) ==
    IF n < 10 THEN Digits[n + 1]
    ELSE NatToString(n \div 10) \o Digits[(n % 10) + 1]

\* String(status) of an optional number
StatusToString(status) ==
    IF status = {} THEN Null ELSE NatToString(CHOOSE s \in status : TRUE)

\* status > 0 of an optional number: null > 0 is false
GreaterThanZero(status) == \E s \in status : s > 0

\* str.split(" ") of a text given as its pieces, each " " or free of spaces:
\* the pieces between two separators are concatenated, and a separator at
\* either end, or two in a row, leave an empty string
RECURSIVE SplitFrom(_, _)
SplitFrom(pieces, current) ==
    IF pieces = <<>> THEN <<current>>
    ELSE IF Head(pieces) = " "
         THEN <<current>> \o SplitFrom(Tail(pieces), "")
         ELSE SplitFrom(Tail(pieces), current \o Head(pieces))

Split(pieces) == SplitFrom(pieces, "")

\* array.filter((i) => i) of an array of strings
RECURSIVE FilterTruthy(_)
FilterTruthy(seq) ==
    IF seq = <<>> THEN <<>>
    ELSE IF Truthy(Head(seq))
         THEN <<Head(seq)>> \o FilterTruthy(Tail(seq))
         ELSE FilterTruthy(Tail(seq))

\* path.join of segments that need no normalisation: empty segments are
\* skipped, the others joined by "/"
RECURSIVE PathJoin(_)
PathJoin(segments) ==
    IF segments = <<>> THEN ""
    ELSE IF Head(segments) = "" THEN PathJoin(Tail(segments))
    ELSE LET rest == PathJoin(Tail(segments)) IN
         IF rest = "" THEN Head(segments) ELSE Head(segments) \o "/" \o rest

\* the working directory and the home directory of the process
Cwd == "/cwd"
HomeDir == "/home/user"

\* path.resolve of "" or of an absolute path
PathResolve(p) == IF p = "" THEN Cwd ELSE p

-----------------------------------------------------------------------------
(* The constructor *)

DefaultCustom ==
    [cargoFlags |-> "", dockerTag |-> DEFAULT_DOCKER_TAG,
     dockerImage |-> DEFAULT_DOCKER_IMAGE, dockerless |-> FALSE]

\* this.custom: service.custom.rust (or {}) merged over the defaults
MergedCustom(rustCustom) == ObjectAssign(DefaultCustom, rustCustom)

\* this.srcPath
ResolvedSrcPath(merged, servicePath) ==
    PathResolve(IF Truthy(Get(merged, "dockerPath"))
                THEN merged["dockerPath"] ELSE servicePath)

-----------------------------------------------------------------------------
(* dockerBuildArgs *)

\* a plausible slip: the package selection overwrites the configured flags
FinalCargoFlagsOverwriting(cargoFlags, cargoPackage) ==
    IF LooseDefined(cargoPackage) THEN " -p " \o cargoPackage ELSE cargoFlags

\* the cargo flags after the package selection
FinalCargoFlags(cargoFlags, cargoPackage) ==
    IF LooseDefined(cargoPackage)
    THEN IF Truthy(cargoFlags)
         THEN cargoFlags \o " -p " \o cargoPackage
         ELSE " -p " \o cargoPackage
    ELSE cargoFlags

\* the -e PROFILE=... override
ProfileArgs(profile) ==
    IF Truthy(profile) THEN <<"-e", "PROFILE=" \o profile>> ELSE <<>>

\* the -e CARGO_FLAGS=... override
CargoFlagsArgs(cargoFlags) ==
    IF Truthy(cargoFlags) THEN <<"-e", "CARGO_FLAGS=" \o cargoFlags>> ELSE <<>>

DefaultArgs(src, cargoRegistry, cargoDownloads) ==
    <<"run", "--rm", "-t", "-e",
      "-v", src \o ":/code",
      "-v", cargoRegistry \o ":/cargo/registry",
      "-v", cargoDownloads \o ":/cargo/git">>

\* SLS_DOCKER_ARGS is held as its pieces; undefined or "" splits to [""]
EnvArgs(e) ==
    LET v == Get(e, "SLS_DOCKER_ARGS") IN
    IF v = Undefined THEN Split(<<>>) ELSE Split(v)

dockerBuildArgs(cargoPackage, profile, src, cargoRegistry, cargoDownloads, e) ==
    FilterTruthy(
        DefaultArgs(src, cargoRegistry, cargoDownloads)
        \o EnvArgs(e)
        \o ProfileArgs(profile)
        \o CargoFlagsArgs(FinalCargoFlags(custom.cargoFlags, cargoPackage))
        \o <<custom.dockerTag \o ":" \o custom.dockerImage>>)

-----------------------------------------------------------------------------
(* dockerBuild *)

CargoHome ==
    IF Truthy(Get(env, "CARGO_HOME")) THEN env["CARGO_HOME"]
    ELSE PathJoin(<<HomeDir, ".cargo">>)

dockerCLI ==
    IF Truthy(Get(env, "SLS_DOCKER_CLI")) THEN env["SLS_DOCKER_CLI"]
    ELSE "docker"

\* the spawnSync call of dockerBuild: the executable and its arguments
dockerBuild(cargoPackage, profile) ==
    [via |-> "dockerBuild",
     command |-> dockerCLI,
     args |-> dockerBuildArgs(cargoPackage, profile, srcPath,
                              PathJoin(<<CargoHome, "registry">>),
                              PathJoin(<<CargoHome, "git">>), env)]

-----------------------------------------------------------------------------
(* build *)

\* the names service.getAllFunctions() returns, in declaration order
UnitName(i) == "f" \o NatToString(i)

getAllFunctions == [i \in 1..Cardinality(DOMAIN funcs) |-> UnitName(i)]

\* a plausible slip: the caller-specified function is ignored
functionsIgnoringOption == getAllFunctions

functions ==
    IF Truthy(options.function) THEN <<options.function>> ELSE getAllFunctions

\* a plausible slip: the provider check compares the wrong field
ProviderHandledAlways == provider.runtime # "aws"

\* service.provider.name != "aws" makes build() return at once
ProviderHandled == provider.name = "aws"

\* func.runtime || service.provider.runtime
EffectiveRuntime(func, providerRuntime) ==
    IF Truthy(func.runtime) THEN func.runtime ELSE providerRuntime

rustFunctionsFound ==
    \E i \in DOMAIN functions :
        EffectiveRuntime(funcs[functions[i]], provider.runtime) = RUST_RUNTIME

\* a plausible slip: only the spawn error is looked at
BuildFailedOnErrorOnly(res) == Truthy(res.error)

\* a plausible slip: res.status !== 0, which takes a null status for a failure
BuildFailedOnNonZero(res) == Truthy(res.error) \/ res.status # {0}

\* res.error || res.status > 0
BuildFailed(res) == Truthy(res.error) \/ GreaterThanZero(res.status)

\* build() declares neither profile nor binary: both are free identifiers,
\* looked up in the global scope, and reading one that is bound nowhere
\* throws a ReferenceError
IsBound(identifier) == identifier \in DOMAIN globalScope

ArtifactDir(profileValue) ==
    IF "dev" = profileValue THEN "debug" ELSE "release"

ArtifactPath(src, profileValue, binaryValue) ==
    PathJoin(<<src, "target/lambda/" \o ArtifactDir(profileValue),
               binaryValue \o ".zip">>)

\* the body of the rewriting loop, once artifactPath is computed
RewriteFunc(func, artifactPath) ==
    [runtime |-> IF func.runtime = RUST_RUNTIME THEN BASE_RUNTIME
                 ELSE func.runtime,
     artifact |-> artifactPath]

NoThrow == [name |-> "none", message |-> <<>>, line |-> 0]

\* new Error(value): the message is "" for undefined, String(value) otherwise
NewError(value, line) ==
    [name |-> "Error",
     message |-> IF value = Undefined THEN <<>> ELSE <<value>>,
     line |-> line]

NoRustFunctionsError ==
    [name |-> "Error",
     message |-> <<"Error: no Rust functions found. ",
                   "Use 'runtime: ", RUST_RUNTIME, "' in global or ",
                   "function configuration to use this plugin.">>,
     line |-> 155]

ReferenceError(identifier) ==
    [name |-> "ReferenceError",
     message |-> <<identifier, " is not defined">>,
     line |-> 183]

BuildErrorLog(res) ==
    <<"Rust build encountered an error: ", res.error, " ",
      StatusToString(res.status), ".">>

\* this.functions().forEach(...) of the rewriting step: an exception ends
\* the loop and keeps what the earlier iterations assigned
RECURSIVE RewriteLoop(_, _)
RewriteLoop(names, fs) ==
    IF names = <<>> THEN [funcs |-> fs, thrown |-> NoThrow]
    ELSE IF ~IsBound("profile")
         THEN [funcs |-> fs, thrown |-> ReferenceError("profile")]
    ELSE IF ~IsBound("binary")
         THEN [funcs |-> fs, thrown |-> ReferenceError("binary")]
    ELSE RewriteLoop(Tail(names),
            [fs EXCEPT ![Head(names)] =
                RewriteFunc(@, ArtifactPath(srcPath, globalScope["profile"],
                                            globalScope["binary"]))])

\* the provider-wide default after the loop
RewriteProviderRuntime(runtime) ==
    IF runtime = RUST_RUNTIME THEN BASE_RUNTIME ELSE runtime

NoOutcome == [error |-> Undefined, status |-> {}]

NoCall ==
    [called |-> FALSE,
     pre |-> [funcs |-> EmptyObject, runtime |-> Undefined],
     spawned |-> <<>>, res |-> NoOutcome, log |-> <<>>,
     thrown |-> NoThrow, rewrite |-> FALSE]

\* build(), bound to every lifecycle hook; res is what spawnSync returns
\* when the call gets as far as spawning
build(res) ==
    LET call == [NoCall EXCEPT
                    !.called = TRUE,
                    !.pre = [funcs |-> funcs, runtime |-> provider.runtime]]
        spawn == dockerBuild(Get(custom, "cargoPackage"), Get(custom, "profile"))
        ran == [call EXCEPT !.spawned = <<spawn>>, !.res = res,
                            !.log = <<<<"Running containerized build">>>>]
        loop == RewriteLoop(functions, funcs)
    IN
    IF ~ProviderHandled
    THEN /\ last' = call
         /\ UNCHANGED <<funcs, provider>>
    ELSE IF ~rustFunctionsFound
    THEN /\ last' = [call EXCEPT !.thrown = NoRustFunctionsError]
         /\ UNCHANGED <<funcs, provider>>
    ELSE IF BuildFailed(res)
    THEN /\ last' = [ran EXCEPT !.log = @ \o <<BuildErrorLog(res)>>,
                                !.thrown = NewError(res.error, 167)]
         /\ UNCHANGED <<funcs, provider>>
    ELSE /\ last' = [ran EXCEPT !.rewrite = TRUE, !.thrown = loop.thrown]
         /\ funcs' = loop.funcs
         /\ provider' = IF loop.thrown = NoThrow
                        THEN [provider EXCEPT
                                !.runtime = RewriteProviderRuntime(@)]
                        ELSE provider

-----------------------------------------------------------------------------
(* The environment of the build: what spawnSync can return *)

SpawnErrors == {"Error: spawnSync ENOENT"}

Outcomes ==
    {[error |-> Undefined, status |-> {s}] : s \in 0..MaxStatus}
    \cup {[error |-> Undefined, status |-> {}]}
    \cup {[error |-> e, status |-> {}] : e \in SpawnErrors}

Succeeded == [error |-> Undefined, status |-> {0}]

-----------------------------------------------------------------------------
(* The lifecycle specification: build() called from the hooks *)

Runtimes == {Undefined, RUST_RUNTIME, "nodejs"}

ProviderNames == {"aws", "other"}

RustCustoms ==
    { EmptyObject,
      [dockerless |-> TRUE],
      [profile |-> "dev", cargoPackage |-> "pkg"],
      [cargoFlags |-> "--locked", dockerPath |-> "/ws", profile |-> "release"] }

ServicePaths == {"", "/svc"}

Envs ==
    { EmptyObject,
      [SLS_DOCKER_CLI |-> "podman", CARGO_HOME |-> "/cargo",
       SLS_DOCKER_ARGS |-> <<"--network", " ", "host">>] }

\* the global scope of a plain Node process binds neither identifier
GlobalScopes ==
    { EmptyObject,
      [profile |-> "dev"],
      [profile |-> "dev", binary |-> "bootstrap"],
      [profile |-> Undefined, binary |-> "bootstrap"] }

UnitNames(n) == {UnitName(i) : i \in 1..n}

NotAssembled ==
    [called |-> FALSE, cargoPackage |-> Undefined, profile |-> Undefined,
     args |-> <<>>]

Init ==
    /\ provider \in [name : ProviderNames, runtime : Runtimes]
    /\ \E n \in 0..MaxUnits :
         /\ funcs \in [UnitNames(n) -> [runtime : Runtimes,
                                        artifact : {Undefined}]]
         /\ options \in [function : {Undefined} \cup UnitNames(n)]
    /\ \E rustCustom \in RustCustoms, servicePath \in ServicePaths :
         /\ custom = MergedCustom(rustCustom)
         /\ srcPath = ResolvedSrcPath(MergedCustom(rustCustom), servicePath)
    /\ env \in Envs
    /\ globalScope \in GlobalScopes
    /\ last = NoCall
    /\ assembled = NotAssembled

Build ==
    /\ \E res \in Outcomes : build(res)
    /\ UNCHANGED <<options, custom, srcPath, env, globalScope, assembled>>

Next == Build

Spec == Init /\ [][Next]_vars

-----------------------------------------------------------------------------
(* The assembler specification: dockerBuildArgs() called directly *)

CargoFlagValues == {"", "--locked", "--features x"}

Packages == {Undefined, Null, "", "pkg"}

Profiles == {Undefined, "", "dev", "release"}

ArgEnvs ==
    { EmptyObject,
      [SLS_DOCKER_ARGS |-> <<>>],
      [SLS_DOCKER_ARGS |-> <<"--network", " ", "host">>],
      [SLS_DOCKER_ARGS |-> <<" ", "-q", " ", " ", "--init", " ">>] }

InitArgs ==
    /\ provider = [name |-> "aws", runtime |-> RUST_RUNTIME]
    /\ funcs = [n \in UnitNames(1) |->
                    [runtime |-> Undefined, artifact |-> Undefined]]
    /\ options = [function |-> Undefined]
    /\ \E cargoFlags \in CargoFlagValues, servicePath \in ServicePaths :
         /\ custom = MergedCustom([cargoFlags |-> cargoFlags])
         /\ srcPath = ResolvedSrcPath(custom, servicePath)
    /\ env \in ArgEnvs
    /\ globalScope = EmptyObject
    /\ last = NoCall
    /\ assembled = NotAssembled

AssembleArgs ==
    /\ \E cargoPackage \in Packages, profile \in Profiles :
         assembled' =
            [called |-> TRUE, cargoPackage |-> cargoPackage,
             profile |-> profile,
             args |-> dockerBuildArgs(cargoPackage, profile, srcPath,
                                      PathJoin(<<CargoHome, "registry">>),
                                      PathJoin(<<CargoHome, "git">>), env)]
    /\ UNCHANGED <<provider, funcs, options, custom, srcPath, env,
                   globalScope, last>>

NextArgs == AssembleArgs

SpecArgs == InitArgs /\ [][NextArgs]_vars

-----------------------------------------------------------------------------
(* What the claims speak of, stated over the record of the last call and   *)
(* the state it left                                                       *)

\* the scope build() iterates: the caller-specified unit, else all units
SelectedScope ==
    IF options.function # Undefined THEN {options.function} ELSE DOMAIN funcs

\* the effective runtime a unit had when the last call began
RuntimeBefore(n) ==
    IF last.pre.funcs[n].runtime # Undefined THEN last.pre.funcs[n].runtime
    ELSE last.pre.runtime

\* the units of the scope that matched when the last call began
Matched == {n \in SelectedScope : RuntimeBefore(n) = "rust"}

MetadataUnchanged ==
    /\ funcs = last.pre.funcs
    /\ provider.runtime = last.pre.runtime

Spawned == last.spawned # <<>>

RaisedNothing == last.thrown.name = "none"

\* the error of line 155
RaisedNoMatchingUnits == last.thrown.name = "Error" /\ last.thrown.line = 155

\* the error of line 167
RaisedBuildExecution == last.thrown.name = "Error" /\ last.thrown.line = 167

OutcomeFailed ==
    last.res.error # Undefined \/ \E s \in last.res.status : s > 0

\* the binary names a unit's artifact may carry
BinaryNames == {"bootstrap", "pkg"} \cup UnitNames(MaxUnits + 1)

ExpectedArtifacts ==
    LET dir == IF Get(custom, "profile") = "dev" THEN "debug" ELSE "release"
    IN {srcPath \o "/target/lambda/" \o dir \o "/" \o b \o ".zip" :
            b \in BinaryNames}

Includes(text, piece) == \E i \in DOMAIN text : text[i] = piece

-----------------------------------------------------------------------------
\* C1: with provider aws, a matching unit and a subprocess that exits with
\* status 0 and no spawn error, build() completes, every matched unit has
\* the artifact path <srcPath>/target/lambda/<debug|release>/<binary>.zip
\* (debug exactly for the configured profile dev), and every unit whose own
\* runtime was rust has runtime provided.al2.
C1_SuccessfulBuildRewrites ==
    (last.called /\ provider.name = "aws" /\ Matched # {} /\ Spawned
        /\ last.res = Succeeded)
    => /\ RaisedNothing
       /\ \A n \in Matched :
            /\ funcs[n].artifact \in ExpectedArtifacts
            /\ last.pre.funcs[n].runtime = "rust"
                  => funcs[n].runtime = "provided.al2"

\* C2: a spawn error or an exit status above zero makes build() raise the
\* build-execution error with no unit's artifact path or runtime and not the
\* provider-wide default runtime changed.
C2_FailedBuildLeavesMetadata ==
    (last.called /\ Spawned /\ OutcomeFailed)
    => RaisedBuildExecution /\ MetadataUnchanged

C2_Witness ==
    /\ last.called /\ Spawned /\ RaisedBuildExecution
    /\ last.res.status = {1}
    /\ \E n \in DOMAIN funcs : funcs[n].runtime = "rust"

\* C3: with provider aws and no unit of the selected scope of effective
\* runtime rust, build() raises the no-matching-units error, spawns nothing
\* and changes no metadata.
C3_NoMatchingUnitsFailsFast ==
    (last.called /\ provider.name = "aws" /\ Matched = {})
    => RaisedNoMatchingUnits /\ ~Spawned /\ MetadataUnchanged

\* the caller-specified unit does not match while another declared unit does
C3_Witness ==
    /\ last.called /\ provider.name = "aws" /\ Matched = {}
    /\ RaisedNoMatchingUnits
    /\ options.function # Undefined
    /\ \E n \in DOMAIN funcs : RuntimeBefore(n) = "rust"

\* C4: with any provider but aws, build() returns without an error, spawns
\* nothing and changes no metadata, whatever the units declare.
C4_OtherProviderIsNoOp ==
    (last.called /\ provider.name # "aws")
    => RaisedNothing /\ ~Spawned /\ MetadataUnchanged

C4_Witness ==
    /\ last.called /\ provider.name # "aws" /\ RaisedNothing
    /\ \E n \in DOMAIN funcs : RuntimeBefore(n) = "rust"

\* C5: with dockerless = true no invocation of build() spawns the container
\* CLI.
C5_DockerlessSpawnsNoContainer ==
    (last.called /\ custom.dockerless)
    => \A i \in DOMAIN last.spawned :
          /\ last.spawned[i].via # "dockerBuild"
          /\ last.spawned[i].command # dockerCLI

\* C6: with provider aws and a subprocess that always exits with status 0,
\* a build() on the state an earlier build() left raises no error and
\* changes no unit's artifact path or runtime nor the provider-wide default.
C6_SecondBuildIsIdempotent ==
    [][ (/\ last.called /\ provider.name = "aws" /\ Spawned
         /\ last.res = Succeeded
         /\ last'.called
         /\ (last'.spawned = <<>> \/ last'.res = Succeeded))
        => /\ last'.thrown.name = "none"
           /\ funcs' = funcs
           /\ provider' = provider ]_vars

\* C7: once the subprocess has succeeded, every unit of the iterated scope
\* whose effective runtime was not rust keeps its artifact path and runtime.
C7_RewriterKeepsUnselectedUnits ==
    (last.called /\ last.rewrite)
    => \A n \in SelectedScope :
          RuntimeBefore(n) # "rust" => funcs[n] = last.pre.funcs[n]

\* C9: the message of a raised build-execution error includes the spawn
\* error when there is one, and the exit status when there is one.
C9_BuildErrorMessageCarriesStatus ==
    (last.called /\ RaisedBuildExecution)
    => /\ last.res.error # Undefined
            => Includes(last.thrown.message, last.res.error)
       /\ \A s \in last.res.status :
            Includes(last.thrown.message, NatToString(s))

\* C10: build() takes the outcome for a failure exactly when the spawn error
\* is present or the exit status is a number above zero; with no spawn error
\* and a null exit status it goes on to the rewriting step.
C10_FailureIffErrorOrPositiveStatus ==
    (last.called /\ Spawned)
    => /\ RaisedBuildExecution <=> OutcomeFailed
       /\ last.rewrite <=> ~OutcomeFailed
       /\ (last.res.error = Undefined /\ last.res.status = {})
             => last.rewrite /\ ~RaisedBuildExecution

C10_Witness ==
    /\ last.called /\ Spawned
    /\ last.res.error = Undefined /\ last.res.status = {}
    /\ last.rewrite

-----------------------------------------------------------------------------
(* The claim about the assembler, over the record of the last direct call *)

\* -e <entry> is among the arguments
HasOverride(args, entry) ==
    \E i \in 1..(Len(args) - 1) : args[i] = "-e" /\ args[i + 1] = entry

\* the final flags as the claim states them
ClaimedFlags(cargoFlags, cargoPackage) ==
    IF cargoPackage \in {Undefined, Null} THEN cargoFlags
    ELSE IF cargoFlags = "" THEN " -p " \o cargoPackage
    ELSE cargoFlags \o " -p " \o cargoPackage

\* every CARGO_FLAGS entry the inputs of the model could give rise to
CargoFlagsEntries ==
    {"CARGO_FLAGS=" \o c \o sep \o p :
        c \in CargoFlagValues, sep \in {"", " ", " -p ", "-p ", " -p"},
        p \in (Packages \ {Undefined, Null})}

ProfileEntries == {"PROFILE=" \o p : p \in Profiles}

\* C8: dockerBuildArgs contributes -e CARGO_FLAGS=<flags> exactly when the
\* final flags are non-empty, the final flags being cargoFlags without a
\* package, " -p <package>" with a package and empty cargoFlags, and
\* "<cargoFlags> -p <package>" with both; and -e PROFILE=<profile> exactly
\* when a profile (a non-empty string) is given.
C8_CargoFlagsAndProfileOverrides ==
    assembled.called
    => LET flags == ClaimedFlags(custom.cargoFlags, assembled.cargoPackage)
           args == assembled.args
           profileSet == assembled.profile \notin {Undefined, ""}
       IN /\ flags # "" => HasOverride(args, "CARGO_FLAGS=" \o flags)
          /\ flags = "" => \A i \in DOMAIN args : args[i] \notin CargoFlagsEntries
          /\ \A i \in DOMAIN args :
                args[i] \in CargoFlagsEntries => args[i] = "CARGO_FLAGS=" \o flags
          /\ profileSet => HasOverride(args, "PROFILE=" \o assembled.profile)
          /\ ~profileSet => \A i \in DOMAIN args : args[i] \notin ProfileEntries

\* both a package and configured flags, and a profile
C8_Witness ==
    /\ assembled.called
    /\ custom.cargoFlags = "--locked" /\ assembled.cargoPackage = "pkg"
    /\ assembled.profile = "dev"
    /\ HasOverride(assembled.args, "CARGO_FLAGS=--locked -p pkg")
    /\ HasOverride(assembled.args, "PROFILE=dev")

====
